---- MODULE Spec2Model ----
(***************************************************************************)
(* The client-side session state machine of iChat (src/src/App.js): the    *)
(* React state of the App component, its two effects, its event handlers,  *)
(* the two HTTP calls of the token gateway and the socket.io channel.      *)
(*                                                                         *)
(* A handler runs to completion; React batches the state updates it makes, *)
(* also those made after an await or in a socket callback (the automatic   *)
(* batching of React 18), and commits them as one render.  The effects     *)
(* whose dependencies changed in that render run next (runEffects), before *)
(* the next event is dispatched; an effect reads the state of the render   *)
(* it belongs to, and a state update it makes is a render of its own.      *)
(***************************************************************************)
EXTENDS Integers, Sequences, FiniteSets, TLC

VARIABLES
    currentView,      \* useState('welcome')          App.js:9
    userName,         \* useState('')                 App.js:10
    socket,           \* useState(null), 0 is null    App.js:11
    roomToken,        \* useState('')                 App.js:12
    messages,         \* useState([])                 App.js:13
    currentMessage,   \* useState('')                 App.js:14
    connectedUsers,   \* useState([])                 App.js:15
    showTokenModal,   \* useState(false)              App.js:16
    tokenInput,       \* useState('')                 App.js:17
    tokenError,       \* useState('')                 App.js:18
    showEmojiPicker,  \* useState(false)              App.js:19
    isCreator,        \* useState(false)              App.js:20
    depsSocket,       \* [currentView] as of the last run of the socket effect
    depsJoin,         \* [currentView, socket, roomToken, userName] as of the last run of the join effect
    cleanup,          \* the socket the socket effect's cleanup closes, 0 if it returned none
    sockets,          \* number of sockets io() has created so far
    connected,        \* the sockets that are open
    inflight,         \* the fetch calls awaiting their response
    requests,         \* number of fetch calls issued so far
    lastJoin,         \* the latest joinRoom emission
    joins,            \* number of joinRoom emissions on the socket opened last
    lastSend,         \* the latest sendMessage emission
    obtainedVia,      \* which path called setRoomToken last
    confirmed         \* the tokens the gateway has generated or validated

vars == <<currentView, userName, socket, roomToken, messages, currentMessage,
          connectedUsers, showTokenModal, tokenInput, tokenError, showEmojiPicker,
          isCreator, depsSocket, depsJoin, cleanup, sockets, connected, inflight,
          requests, lastJoin, joins, lastSend, obtainedVia, confirmed>>

----------------------------------------------------------------------------
(* Bounds of the model *)

MaxRequests == 2

MaxFeed == 2

MaxEmojis == 1

(* Program constants: the maxLength attributes of the three inputs *)

nameMaxLength == 20

tokenMaxLength == 6

messageMaxLength == 500

----------------------------------------------------------------------------
(* Strings.  A string is the sequence of its runs: a run [c, n] is the     *)
(* UTF-16 code unit c repeated n times, and adjacent runs differ in c.     *)
(* String.length, trim, toUpperCase and the maxLength attribute all count  *)
(* and compare code units.                                                 *)

Run(c, n) == [c |-> c, n |-> n]

Empty == <<>>

\* adjacent runs of the same code unit are one run
RECURSIVE Canonical(_)
Canonical(s) ==
    IF Len(s) < 2 THEN s
    ELSE IF s[1].c = s[2].c
         THEN Canonical(<<Run(s[1].c, s[1].n + s[2].n)>> \o SubSeq(s, 3, Len(s)))
         ELSE <<s[1]>> \o Canonical(Tail(s))

\* the string of the code units chars
Text(chars) == Canonical([i \in 1..Len(chars) |-> Run(chars[i], 1)])

\* String.prototype.length
RECURSIVE Length(_)
Length(s) == IF s = <<>> THEN 0 ELSE Head(s).n + Length(Tail(s))

\* the + of two strings
Concat(s, t) == Canonical(s \o t)

IsSpace(c) == c = " "

\* String.prototype.trim: without the whitespace at both ends
Trim(s) ==
    LET a == IF s # <<>> /\ IsSpace(Head(s).c) THEN Tail(s) ELSE s
    IN  IF a # <<>> /\ IsSpace(a[Len(a)].c) THEN SubSeq(a, 1, Len(a) - 1) ELSE a

UpperChar(c) ==
    CASE c = "a" -> "A"
      [] c = "l" -> "L"
      [] c = "h" -> "H"
      [] c = "x" -> "X"
      [] OTHER -> c

\* String.prototype.toUpperCase
ToUpperCase(s) == Canonical([i \in 1..Len(s) |-> Run(UpperChar(s[i].c), s[i].n)])

\* JavaScript truthiness of a string
Truthy(s) == s # Empty

----------------------------------------------------------------------------
(* Inputs *)

\* what the user can type into the name input (maxLength 20)
NameInputs == {v \in {Empty, Text(<<" ">>), Text(<<" ", "A", "l">>)} : Length(v) <= nameMaxLength}

\* what the user can type into the token input (maxLength 6)
TokenInputs == {v \in {Text(<<" ">>), Text(<<"a">>)} : Length(v) <= tokenMaxLength}

\* a draft as long as the chat input lets the user type
Full == <<Run("x", messageMaxLength)>>

\* what the user can type into the chat input (maxLength 500)
DraftInputs == {v \in {Text(<<" ">>), Text(<<" ", "h", " ">>), Full} : Length(v) <= messageMaxLength}

\* emojiData.emoji: U+1F60A is the surrogate pair D83D DE0A
Emojis == {Text(<<"D83D", "DE0A">>)}

IsEmojiUnit(c) == \E e \in Emojis : \E i \in 1..Len(e) : e[i].c = c

\* the runs of s that are emoji code units
EmojiRuns(s) == SelectSeq(s, LAMBDA r : IsEmojiUnit(r.c))

\* values of Date.now()
Instants == {1, 2}

\* tokens GET /api/generate-token can return
ServerTokens == {Text(<<"A">>), Text(<<"C">>)}

\* the other users' names, as the server sends them
RemoteNames == {"Bo"}

\* the messages a newMessage event can carry
ServerMessages ==
    {[id |-> 1, userName |-> "Bo", text |-> "hi", timestamp |-> 1],
     [id |-> 7, userName |-> "Al", text |-> "yo", timestamp |-> 2]}

\* the snapshots a roomJoined event can carry: of a new room, of a room in use
Snapshots ==
    {[users |-> <<"Al">>, messages |-> <<>>],
     [users |-> <<"Al", "Bo">>,
      messages |-> <<[id |-> 5, userName |-> "Bo", text |-> "yo", timestamp |-> 1]>>]}

\* the fetch calls: GET /api/generate-token, and POST /api/validate-token
\* made by the render whose tokenInput the handler closes over
GenerateRequest == [kind |-> "generate", tokenInput |-> Empty]

\* token is the body's field, tokenInput what the closure holds
ValidateRequest(v) == [kind |-> "validate", tokenInput |-> v, token |-> ToUpperCase(v)]

Requests == {GenerateRequest} \cup {ValidateRequest(ToUpperCase(v)) : v \in TokenInputs}

NoSend == [socket |-> 0]

NoJoin == [socket |-> 0]

----------------------------------------------------------------------------
Init ==
    /\ currentView = "welcome"
    /\ userName = Empty
    /\ socket = 0
    /\ roomToken = Empty
    /\ messages = <<>>
    /\ currentMessage = Empty
    /\ connectedUsers = <<>>
    /\ showTokenModal = FALSE
    /\ tokenInput = Empty
    /\ tokenError = ""
    /\ showEmojiPicker = FALSE
    /\ isCreator = FALSE
    /\ depsSocket = "welcome"
    /\ depsJoin = <<"welcome", 0, Empty, Empty>>
    /\ cleanup = 0
    /\ sockets = 0
    /\ connected = {}
    /\ inflight = [r \in Requests |-> 0]
    /\ requests = 0
    /\ lastJoin = NoJoin
    /\ joins = 0
    /\ lastSend = NoSend
    /\ obtainedVia = "none"
    /\ confirmed = {}

----------------------------------------------------------------------------
(* The effects *)

\* the dependency array of the socket effect has changed since it last ran
viewChanged == currentView # depsSocket

\* a mutant of joinDeps: roomToken is not among the dependencies
joinDepsWithoutToken == <<currentView, socket, Empty, userName>>

\* the dependency array of the join effect
joinDeps == <<currentView, socket, roomToken, userName>>

\* the dependency array of the join effect has changed since it last ran
joinChanged == joinDeps # depsJoin

EffectsPending == viewChanged \/ joinChanged

\* no effect is waiting to run: the next event can be dispatched
Idle == ~EffectsPending

\* the socket effect's condition: it opens a socket
opensSocket == viewChanged /\ currentView = "chat" /\ socket = 0

\* joinRoom: what it emits on the socket of the render it closes over (at most one event)
joinRoom ==
    IF socket # 0 /\ Truthy(roomToken) /\ Truthy(userName)
    THEN {[socket |-> socket, token |-> roomToken, userName |-> userName,
           isCreator |-> isCreator]}
    ELSE {}

\* the join effect: what it emits
joinEffect ==
    IF joinChanged /\ currentView = "chat" /\ socket # 0 /\ Truthy(roomToken) /\ Truthy(userName)
    THEN joinRoom
    ELSE {}

\* React runs the effects of the committed render: the cleanup of the socket
\* effect's previous run, then the socket effect, then the join effect
runEffects ==
    /\ EffectsPending
    /\ LET closed == IF viewChanged /\ cleanup # 0 THEN connected \ {cleanup} ELSE connected
           newSocket == sockets + 1
       IN  /\ connected' = IF opensSocket THEN closed \cup {newSocket} ELSE closed
           /\ socket' = IF opensSocket THEN newSocket ELSE socket
           /\ sockets' = IF opensSocket THEN newSocket ELSE sockets
           /\ cleanup' = IF viewChanged THEN (IF opensSocket THEN newSocket ELSE 0) ELSE cleanup
    /\ lastJoin' = IF joinEffect = {} THEN lastJoin ELSE CHOOSE e \in joinEffect : TRUE
    /\ joins' = IF opensSocket THEN 0 ELSE joins + Cardinality(joinEffect)
    /\ depsSocket' = currentView
    /\ depsJoin' = joinDeps
    /\ UNCHANGED <<currentView, userName, roomToken, messages, currentMessage,
                   connectedUsers, showTokenModal, tokenInput, tokenError,
                   showEmojiPicker, isCreator, inflight, requests, lastSend,
                   obtainedVia, confirmed>>

effectVars == <<depsSocket, depsJoin, cleanup, sockets>>

----------------------------------------------------------------------------
(* Welcome *)

\* onChange of the name input
setUserName(v) ==
    /\ Idle /\ currentView = "welcome"
    /\ userName' = v
    /\ UNCHANGED <<currentView, socket, roomToken, messages, currentMessage,
                   connectedUsers, showTokenModal, tokenInput, tokenError,
                   showEmojiPicker, isCreator, connected, inflight, requests,
                   lastJoin, joins, lastSend, obtainedVia, confirmed>>
    /\ UNCHANGED effectVars

\* a mutant of nameAccepted: the name is not trimmed
nameAcceptedUntrimmed == Truthy(userName)

\* the condition of handleNameSubmit
nameAccepted == Truthy(Trim(userName))

handleNameSubmit ==
    /\ Idle /\ currentView = "welcome"
    /\ currentView' = IF nameAccepted THEN "menu" ELSE currentView
    /\ UNCHANGED <<userName, socket, roomToken, messages, currentMessage,
                   connectedUsers, showTokenModal, tokenInput, tokenError,
                   showEmojiPicker, isCreator, connected, inflight, requests,
                   lastJoin, joins, lastSend, obtainedVia, confirmed>>
    /\ UNCHANGED effectVars

----------------------------------------------------------------------------
(* Menu: the create path *)

\* one more, one fewer fetch call awaiting its response
Issue(r) == [inflight EXCEPT ![r] = @ + 1]

Settle(r) == [inflight EXCEPT ![r] = @ - 1]

\* a mutant of NoToken: the failure is returned as the text null
NoTokenAsText == Text(<<"n", "u", "l", "l">>)

\* what generateToken returns: a token, or nothing (null from the catch,
\* undefined when the response carries no token), which is falsy
NoToken == Empty

generateToken == ServerTokens \cup {NoToken}

\* startNewChat up to its await: the request is issued
startNewChat ==
    /\ Idle /\ currentView = "menu"
    /\ requests < MaxRequests
    /\ inflight' = Issue(GenerateRequest)
    /\ requests' = requests + 1
    /\ UNCHANGED <<currentView, userName, socket, roomToken, messages, currentMessage,
                   connectedUsers, showTokenModal, tokenInput, tokenError,
                   showEmojiPicker, isCreator, connected, lastJoin, joins, lastSend,
                   obtainedVia, confirmed>>
    /\ UNCHANGED effectVars

\* a mutant of tokenReceived: startNewChat goes on without a token
tokenReceivedAlways(token) == TRUE

\* the condition of startNewChat
tokenReceived(token) == Truthy(token)

\* a mutant of startNewChatResume: the role is left as it was
startNewChatResumeKeepsRole(token) ==
    /\ Idle
    /\ inflight[GenerateRequest] > 0
    /\ inflight' = Settle(GenerateRequest)
    /\ confirmed' = IF Truthy(token) THEN confirmed \cup {token} ELSE confirmed
    /\ IF tokenReceived(token)
       THEN /\ roomToken' = token
            /\ currentView' = "chat"
            /\ obtainedVia' = "generate"
            /\ UNCHANGED isCreator
       ELSE UNCHANGED <<roomToken, isCreator, currentView, obtainedVia>>
    /\ UNCHANGED <<userName, socket, messages, currentMessage, connectedUsers,
                   showTokenModal, tokenInput, tokenError, showEmojiPicker,
                   connected, requests, lastJoin, joins, lastSend>>
    /\ UNCHANGED effectVars

\* startNewChat after its await: generateToken has returned token
startNewChatResume(token) ==
    /\ Idle
    /\ inflight[GenerateRequest] > 0
    /\ inflight' = Settle(GenerateRequest)
    /\ confirmed' = IF Truthy(token) THEN confirmed \cup {token} ELSE confirmed
    /\ IF tokenReceived(token)
       THEN /\ roomToken' = token
            /\ isCreator' = TRUE
            /\ currentView' = "chat"
            /\ obtainedVia' = "generate"
       ELSE UNCHANGED <<roomToken, isCreator, currentView, obtainedVia>>
    /\ UNCHANGED <<userName, socket, messages, currentMessage, connectedUsers,
                   showTokenModal, tokenInput, tokenError, showEmojiPicker,
                   connected, requests, lastJoin, joins, lastSend>>
    /\ UNCHANGED effectVars

----------------------------------------------------------------------------
(* Menu: the join path and the token modal *)

joinChatAsReceiver ==
    /\ Idle /\ currentView = "menu"
    /\ showTokenModal' = TRUE
    /\ tokenError' = ""
    /\ UNCHANGED <<currentView, userName, socket, roomToken, messages, currentMessage,
                   connectedUsers, tokenInput, showEmojiPicker, isCreator, connected,
                   inflight, requests, lastJoin, joins, lastSend, obtainedVia, confirmed>>
    /\ UNCHANGED effectVars

\* onChange of the token input
setTokenInput(v) ==
    /\ Idle /\ showTokenModal
    /\ tokenInput' = ToUpperCase(v)
    /\ UNCHANGED <<currentView, userName, socket, roomToken, messages, currentMessage,
                   connectedUsers, showTokenModal, tokenError, showEmojiPicker,
                   isCreator, connected, inflight, requests, lastJoin, joins, lastSend,
                   obtainedVia, confirmed>>
    /\ UNCHANGED effectVars

\* a mutant of cancelTokenModal: the room token is emptied too
cancelTokenModalClearsToken ==
    /\ Idle /\ showTokenModal
    /\ showTokenModal' = FALSE
    /\ tokenInput' = Empty
    /\ tokenError' = ""
    /\ roomToken' = Empty
    /\ UNCHANGED <<currentView, userName, socket, messages, currentMessage,
                   connectedUsers, showEmojiPicker, isCreator, connected, inflight,
                   requests, lastJoin, joins, lastSend, obtainedVia, confirmed>>
    /\ UNCHANGED effectVars

\* onClick of the modal's Cancel button
cancelTokenModal ==
    /\ Idle /\ showTokenModal
    /\ showTokenModal' = FALSE
    /\ tokenInput' = Empty
    /\ tokenError' = ""
    /\ UNCHANGED <<currentView, userName, socket, roomToken, messages, currentMessage,
                   connectedUsers, showEmojiPicker, isCreator, connected, inflight,
                   requests, lastJoin, joins, lastSend, obtainedVia, confirmed>>
    /\ UNCHANGED effectVars

\* a mutant of handleTokenSubmit: the empty check is left out
handleTokenSubmitSendsBlank ==
    /\ Idle /\ showTokenModal
    /\ requests < MaxRequests
    /\ inflight' = Issue(ValidateRequest(tokenInput))
    /\ requests' = requests + 1
    /\ UNCHANGED <<currentView, userName, socket, roomToken, messages, currentMessage,
                   connectedUsers, showTokenModal, tokenInput, tokenError,
                   showEmojiPicker, isCreator, connected, lastJoin, joins, lastSend,
                   obtainedVia, confirmed>>
    /\ UNCHANGED effectVars

\* handleTokenSubmit up to its await: the empty check, then the request
handleTokenSubmit ==
    /\ Idle /\ showTokenModal
    /\ IF ~Truthy(Trim(tokenInput))
       THEN /\ tokenError' = "Please enter a token"
            /\ UNCHANGED <<inflight, requests>>
       ELSE /\ requests < MaxRequests
            /\ inflight' = Issue(ValidateRequest(tokenInput))
            /\ requests' = requests + 1
            /\ UNCHANGED tokenError
    /\ UNCHANGED <<currentView, userName, socket, roomToken, messages, currentMessage,
                   connectedUsers, showTokenModal, tokenInput, showEmojiPicker,
                   isCreator, connected, lastJoin, joins, lastSend, obtainedVia, confirmed>>
    /\ UNCHANGED effectVars

\* the gateway answers valid: true or valid: false, or fetch or
\* response.json() throws
ValidateOutcomes == {"valid", "invalid", "error"}

\* a mutant of tokenAccepted: any answer of the gateway is taken for valid
tokenAcceptedOnAnswer(outcome) == outcome # "error"

\* the condition of handleTokenSubmit on the answer
tokenAccepted(outcome) == outcome = "valid"

\* a mutant of handleTokenSubmitResume: the token stored is read from the
\* input as it is when the answer arrives
handleTokenSubmitResumeReadsInput(r, outcome) ==
    /\ Idle
    /\ r.kind = "validate" /\ inflight[r] > 0
    /\ inflight' = Settle(r)
    /\ confirmed' = IF outcome = "valid"
                    THEN confirmed \cup {ToUpperCase(r.tokenInput)}
                    ELSE confirmed
    /\ CASE outcome # "error" /\ tokenAccepted(outcome) ->
                /\ roomToken' = ToUpperCase(tokenInput)
                /\ isCreator' = FALSE
                /\ showTokenModal' = FALSE
                /\ tokenInput' = Empty
                /\ currentView' = "chat"
                /\ obtainedVia' = "validate"
                /\ UNCHANGED tokenError
         [] outcome # "error" /\ ~tokenAccepted(outcome) ->
                /\ tokenError' = "Invalid token. Please check and try again."
                /\ UNCHANGED <<roomToken, isCreator, showTokenModal, tokenInput,
                               currentView, obtainedVia>>
         [] outcome = "error" ->
                /\ tokenError' = "Error validating token. Please try again."
                /\ UNCHANGED <<roomToken, isCreator, showTokenModal, tokenInput,
                               currentView, obtainedVia>>
    /\ UNCHANGED <<userName, socket, messages, currentMessage, connectedUsers,
                   showEmojiPicker, connected, requests, lastJoin, joins, lastSend>>
    /\ UNCHANGED effectVars

\* handleTokenSubmit after its awaits: the gateway has answered, or fetch or
\* response.json() has thrown
handleTokenSubmitResume(r, outcome) ==
    /\ Idle
    /\ r.kind = "validate" /\ inflight[r] > 0
    /\ inflight' = Settle(r)
    /\ confirmed' = IF outcome = "valid"
                    THEN confirmed \cup {ToUpperCase(r.tokenInput)}
                    ELSE confirmed
    /\ CASE outcome # "error" /\ tokenAccepted(outcome) ->
                /\ roomToken' = ToUpperCase(r.tokenInput)
                /\ isCreator' = FALSE
                /\ showTokenModal' = FALSE
                /\ tokenInput' = Empty
                /\ currentView' = "chat"
                /\ obtainedVia' = "validate"
                /\ UNCHANGED tokenError
         [] outcome # "error" /\ ~tokenAccepted(outcome) ->
                /\ tokenError' = "Invalid token. Please check and try again."
                /\ UNCHANGED <<roomToken, isCreator, showTokenModal, tokenInput,
                               currentView, obtainedVia>>
         [] outcome = "error" ->
                /\ tokenError' = "Error validating token. Please try again."
                /\ UNCHANGED <<roomToken, isCreator, showTokenModal, tokenInput,
                               currentView, obtainedVia>>
    /\ UNCHANGED <<userName, socket, messages, currentMessage, connectedUsers,
                   showEmojiPicker, connected, requests, lastJoin, joins, lastSend>>
    /\ UNCHANGED effectVars

----------------------------------------------------------------------------
(* Chat: the user's side *)

\* onChange of the chat input
setCurrentMessage(v) ==
    /\ Idle /\ currentView = "chat"
    /\ currentMessage' = v
    /\ UNCHANGED <<currentView, userName, socket, roomToken, messages, connectedUsers,
                   showTokenModal, tokenInput, tokenError, showEmojiPicker, isCreator,
                   connected, inflight, requests, lastJoin, joins, lastSend, obtainedVia,
                   confirmed>>
    /\ UNCHANGED effectVars

\* onClick of the emoji button
toggleEmojiPicker ==
    /\ Idle /\ currentView = "chat"
    /\ showEmojiPicker' = ~showEmojiPicker
    /\ UNCHANGED <<currentView, userName, socket, roomToken, messages, currentMessage,
                   connectedUsers, showTokenModal, tokenInput, tokenError, isCreator,
                   connected, inflight, requests, lastJoin, joins, lastSend, obtainedVia,
                   confirmed>>
    /\ UNCHANGED effectVars

handleEmojiClick(emoji) ==
    /\ Idle /\ currentView = "chat" /\ showEmojiPicker
    /\ Length(EmojiRuns(currentMessage)) < MaxEmojis * Length(emoji)
    /\ currentMessage' = Concat(currentMessage, emoji)
    /\ showEmojiPicker' = FALSE
    /\ UNCHANGED <<currentView, userName, socket, roomToken, messages, connectedUsers,
                   showTokenModal, tokenInput, tokenError, isCreator, connected,
                   inflight, requests, lastJoin, joins, lastSend, obtainedVia, confirmed>>
    /\ UNCHANGED effectVars

\* a mutant of sendMessage: the message sent is put in the feed at once
sendMessageEchoes ==
    /\ Idle /\ currentView = "chat"
    /\ IF Truthy(Trim(currentMessage)) /\ socket # 0
       THEN /\ lastSend' = [socket |-> socket, token |-> roomToken,
                            message |-> Trim(currentMessage), userName |-> userName]
            /\ messages' = Append(messages, [id |-> 0, userName |-> userName,
                                             text |-> Trim(currentMessage),
                                             timestamp |-> 0])
            /\ currentMessage' = Empty
            /\ showEmojiPicker' = FALSE
       ELSE UNCHANGED <<lastSend, messages, currentMessage, showEmojiPicker>>
    /\ UNCHANGED <<currentView, userName, socket, roomToken, connectedUsers,
                   showTokenModal, tokenInput, tokenError, isCreator, connected,
                   inflight, requests, lastJoin, joins, obtainedVia, confirmed>>
    /\ UNCHANGED effectVars

\* onSubmit of the chat form
sendMessage ==
    /\ Idle /\ currentView = "chat"
    /\ IF Truthy(Trim(currentMessage)) /\ socket # 0
       THEN /\ lastSend' = [socket |-> socket, token |-> roomToken,
                            message |-> Trim(currentMessage), userName |-> userName]
            /\ currentMessage' = Empty
            /\ showEmojiPicker' = FALSE
       ELSE UNCHANGED <<lastSend, currentMessage, showEmojiPicker>>
    /\ UNCHANGED <<currentView, userName, socket, roomToken, messages, connectedUsers,
                   showTokenModal, tokenInput, tokenError, isCreator, connected,
                   inflight, requests, lastJoin, joins, obtainedVia, confirmed>>
    /\ UNCHANGED effectVars

\* a mutant of backToMenu: the reference to the closed channel is kept
backToMenuKeepsSocket ==
    /\ Idle /\ currentView = "chat"
    /\ connected' = connected \ {socket}
    /\ currentView' = "menu"
    /\ messages' = <<>>
    /\ roomToken' = Empty
    /\ connectedUsers' = <<>>
    /\ UNCHANGED <<socket, userName, currentMessage, showTokenModal, tokenInput,
                   tokenError, showEmojiPicker, isCreator, inflight, requests, lastJoin,
                   joins, lastSend, obtainedVia, confirmed>>
    /\ UNCHANGED effectVars

\* onClick of the Back button
backToMenu ==
    /\ Idle /\ currentView = "chat"
    /\ IF socket # 0
       THEN /\ connected' = connected \ {socket}
            /\ socket' = 0
       ELSE UNCHANGED <<connected, socket>>
    /\ currentView' = "menu"
    /\ messages' = <<>>
    /\ roomToken' = Empty
    /\ connectedUsers' = <<>>
    /\ UNCHANGED <<userName, currentMessage, showTokenModal, tokenInput, tokenError,
                   showEmojiPicker, isCreator, inflight, requests, lastJoin, joins, lastSend,
                   obtainedVia, confirmed>>
    /\ UNCHANGED effectVars

----------------------------------------------------------------------------
(* Chat: the handlers the socket effect registers on newSocket *)

\* a mutant of roomJoined: the snapshot is merged into the feed
roomJoinedMerges(newSocket, data) ==
    /\ Idle /\ newSocket \in connected
    /\ connectedUsers' = data.users
    /\ messages' = messages \o data.messages
    /\ UNCHANGED <<currentView, userName, socket, roomToken, currentMessage,
                   showTokenModal, tokenInput, tokenError, showEmojiPicker, isCreator,
                   connected, inflight, requests, lastJoin, joins, lastSend, obtainedVia,
                   confirmed>>
    /\ UNCHANGED effectVars

roomJoined(newSocket, data) ==
    /\ Idle /\ newSocket \in connected
    /\ connectedUsers' = data.users
    /\ messages' = data.messages
    /\ UNCHANGED <<currentView, userName, socket, roomToken, currentMessage,
                   showTokenModal, tokenInput, tokenError, showEmojiPicker, isCreator,
                   connected, inflight, requests, lastJoin, joins, lastSend, obtainedVia,
                   confirmed>>
    /\ UNCHANGED effectVars

newMessage(newSocket, message) ==
    /\ Idle /\ newSocket \in connected
    /\ Len(messages) < MaxFeed
    /\ messages' = Append(messages, message)
    /\ UNCHANGED <<currentView, userName, socket, roomToken, currentMessage,
                   connectedUsers, showTokenModal, tokenInput, tokenError,
                   showEmojiPicker, isCreator, connected, inflight, requests, lastJoin, joins,
                   lastSend, obtainedVia, confirmed>>
    /\ UNCHANGED effectVars

\* the system message a presence handler builds at instant now
connectMessage(data, now) ==
    [id |-> now, text |-> data \o " is connected", isSystem |-> TRUE, timestamp |-> now]

disconnectMessage(data, now) ==
    [id |-> now, text |-> data \o " has disconnected", isSystem |-> TRUE, timestamp |-> now]

\* a mutant of userConnected: the user is added to connectedUsers too
userConnectedAddsUser(newSocket, data, now) ==
    /\ Idle /\ newSocket \in connected
    /\ Len(messages) < MaxFeed
    /\ messages' = Append(messages, connectMessage(data, now))
    /\ connectedUsers' = Append(connectedUsers, data)
    /\ UNCHANGED <<currentView, userName, socket, roomToken, currentMessage,
                   showTokenModal, tokenInput, tokenError,
                   showEmojiPicker, isCreator, connected, inflight, requests, lastJoin, joins,
                   lastSend, obtainedVia, confirmed>>
    /\ UNCHANGED effectVars

userConnected(newSocket, data, now) ==
    /\ Idle /\ newSocket \in connected
    /\ Len(messages) < MaxFeed
    /\ messages' = Append(messages, connectMessage(data, now))
    /\ UNCHANGED <<currentView, userName, socket, roomToken, currentMessage,
                   connectedUsers, showTokenModal, tokenInput, tokenError,
                   showEmojiPicker, isCreator, connected, inflight, requests, lastJoin, joins,
                   lastSend, obtainedVia, confirmed>>
    /\ UNCHANGED effectVars

userDisconnected(newSocket, data, now) ==
    /\ Idle /\ newSocket \in connected
    /\ Len(messages) < MaxFeed
    /\ messages' = Append(messages, disconnectMessage(data, now))
    /\ UNCHANGED <<currentView, userName, socket, roomToken, currentMessage,
                   connectedUsers, showTokenModal, tokenInput, tokenError,
                   showEmojiPicker, isCreator, connected, inflight, requests, lastJoin, joins,
                   lastSend, obtainedVia, confirmed>>
    /\ UNCHANGED effectVars

\* a mutant of sessionExpired: the feed is kept
sessionExpiredKeepsFeed(newSocket) ==
    /\ Idle /\ newSocket \in connected
    /\ currentView' = "menu"
    /\ roomToken' = Empty
    /\ connected' = connected \ {newSocket}
    /\ socket' = 0
    /\ UNCHANGED <<userName, messages, currentMessage, connectedUsers, showTokenModal,
                   tokenInput, tokenError, showEmojiPicker, isCreator, inflight, requests,
                   lastJoin, joins, lastSend, obtainedVia, confirmed>>
    /\ UNCHANGED effectVars

sessionExpired(newSocket) ==
    /\ Idle /\ newSocket \in connected
    /\ currentView' = "menu"
    /\ messages' = <<>>
    /\ roomToken' = Empty
    /\ connected' = connected \ {newSocket}
    /\ socket' = 0
    /\ UNCHANGED <<userName, currentMessage, connectedUsers, showTokenModal, tokenInput,
                   tokenError, showEmojiPicker, isCreator, inflight, requests, lastJoin, joins,
                   lastSend, obtainedVia, confirmed>>
    /\ UNCHANGED effectVars

----------------------------------------------------------------------------
(* The session: the views, the two paths into Chat, the channel *)
SessionStep ==
    \/ runEffects
    \/ \E v \in NameInputs : setUserName(v)
    \/ handleNameSubmit
    \/ startNewChat
    \/ \E token \in generateToken : startNewChatResume(token)
    \/ joinChatAsReceiver
    \/ \E v \in TokenInputs : setTokenInput(v)
    \/ cancelTokenModal
    \/ handleTokenSubmit
    \/ \E r \in Requests : \E outcome \in ValidateOutcomes : handleTokenSubmitResume(r, outcome)
    \/ backToMenu
    \/ \E s \in connected : sessionExpired(s)

(* The feed: the events of the channel that write messages and connectedUsers *)
FeedStep ==
    \/ \E s \in connected : \E data \in Snapshots : roomJoined(s, data)
    \/ \E s \in connected : \E message \in ServerMessages : newMessage(s, message)
    \/ \E s \in connected : \E data \in RemoteNames : \E now \in Instants : userConnected(s, data, now)
    \/ \E s \in connected : \E data \in RemoteNames : \E now \in Instants : userDisconnected(s, data, now)

(* The draft: the chat form, which writes currentMessage, showEmojiPicker and lastSend *)
DraftStep ==
    \/ \E v \in DraftInputs : setCurrentMessage(v)
    \/ toggleEmojiPicker
    \/ \E emoji \in Emojis : handleEmojiClick(emoji)
    \/ sendMessage

Next == SessionStep \/ FeedStep \/ DraftStep

Spec == Init /\ [][Next]_vars

(***************************************************************************)
(* FeedStep writes only messages and connectedUsers and DraftStep writes   *)
(* only currentMessage, showEmojiPicker and lastSend; no step of another   *)
(* group reads what these write.  A property of the session is therefore   *)
(* checked under the session's steps, and a property of the feed or of the *)
(* draft under the session's steps and that group's.                       *)
(***************************************************************************)
SpecSession == Init /\ [][SessionStep]_vars

SpecFeed == Init /\ [][SessionStep \/ FeedStep]_vars

SpecDraft == Init /\ [][SessionStep \/ DraftStep]_vars

(* The chat form as far as sending goes: a draft is typed and submitted *)
SendStep ==
    \/ \E v \in {Text(<<" ", "h", " ">>)} : setCurrentMessage(v)
    \/ sendMessage

\* a property that relates sending to the feed is checked under the session's
\* steps, the feed's and these
SpecFeedSend == Init /\ [][SessionStep \/ FeedStep \/ SendStep]_vars

----------------------------------------------------------------------------
(* The claims *)

\* C1: each entry into Chat results in exactly one joinRoom emission on the
\* channel opened for it: one once the channel is open and the effects have
\* run, and never a second one on the same channel.
C1_ExactlyOneJoinPerEntry ==
    /\ joins <= 1
    /\ (Idle /\ currentView = "chat" /\ socket # 0) => joins = 1

\* C2: every joinRoom emission carries isCreator = true iff the token it
\* carries was set by the create path, and isCreator = false iff it was set
\* by the join path.
C2_RoleFlagTruthful ==
    [][joins' = joins + 1 =>
         /\ lastJoin'.isCreator = TRUE <=> obtainedVia = "generate"
         /\ lastJoin'.isCreator = FALSE <=> obtainedVia = "validate"]_vars

\* C2's case: a second joinRoom on a channel, for a token of the join path,
\* after the create path opened the channel.
C2_Witness ==
    /\ joins = 2
    /\ lastJoin.isCreator = FALSE
    /\ obtainedVia = "validate"

\* C3: every joinRoom emission carries a non-empty token that the gateway
\* has generated or has answered valid for.
C3_JoinTokenConfirmed ==
    lastJoin # NoJoin => Truthy(lastJoin.token) /\ lastJoin.token \in confirmed

\* C3's case: a joinRoom emitted for a token the user typed, after the
\* gateway answered valid for it.
C3_Witness ==
    /\ lastJoin # NoJoin
    /\ obtainedVia = "validate"
    /\ lastJoin.token = ToUpperCase(Text(<<"a">>))
    /\ lastJoin.isCreator = FALSE

\* C4: no sendMessage is emitted whose text is empty after trimming or longer
\* than 500 code units.
C4_NoInvalidSend ==
    lastSend # NoSend =>
        /\ Truthy(Trim(lastSend.message))
        /\ Length(lastSend.message) <= messageMaxLength

\* C5: handling sessionExpired in the Chat view leaves view = menu, an empty
\* feed, an empty room token, and the channel closed and no longer held.
C5_SessionExpiredResets ==
    [][\A s \in connected :
         (currentView = "chat" /\ sessionExpired(s)) =>
             /\ currentView' = "menu"
             /\ messages' = <<>>
             /\ roomToken' = Empty
             /\ s \notin connected'
             /\ socket' = 0]_vars

\* C5's case: sessionExpired has been handled after a snapshot was received
\* (Back would have emptied connectedUsers).
C5_Witness ==
    /\ currentView = "menu"
    /\ sockets > 0
    /\ connected = {}
    /\ socket = 0
    /\ messages = <<>>
    /\ connectedUsers # <<>>

\* C6: whenever the view is Menu, ConnectedUsers, RoomToken and MessageFeed
\* are all empty.
C6_MenuIsClean ==
    currentView = "menu" =>
        /\ connectedUsers = <<>>
        /\ roomToken = Empty
        /\ messages = <<>>

\* C7: handling roomJoined sets ConnectedUsers to exactly the snapshot's users
\* and MessageFeed to exactly the snapshot's messages, whatever they held.
C7_SnapshotReplaces ==
    [][\A s \in connected : \A data \in Snapshots :
         roomJoined(s, data) =>
             /\ connectedUsers' = data.users
             /\ messages' = data.messages]_vars

\* C7's case: the feed holds the one message of the snapshot of a room in
\* use, which only roomJoined delivers.
C7_Witness ==
    /\ currentView = "chat"
    /\ \E data \in Snapshots :
         /\ data.messages # <<>>
         /\ messages = data.messages
         /\ connectedUsers = data.users

\* C8: handling userConnected or userDisconnected appends exactly one system
\* message with the text of the event to the end of the feed, and leaves
\* ConnectedUsers, view, RoomToken and role unchanged.
C8_PresenceAppendsOnly ==
    [][\A s \in connected : \A data \in RemoteNames : \A now \in Instants :
         /\ userConnected(s, data, now) =>
                /\ Len(messages') = Len(messages) + 1
                /\ SubSeq(messages', 1, Len(messages)) = messages
                /\ messages'[Len(messages')].text = data \o " is connected"
                /\ messages'[Len(messages')].isSystem
                /\ UNCHANGED <<connectedUsers, currentView, roomToken, isCreator>>
         /\ userDisconnected(s, data, now) =>
                /\ Len(messages') = Len(messages) + 1
                /\ SubSeq(messages', 1, Len(messages)) = messages
                /\ messages'[Len(messages')].text = data \o " has disconnected"
                /\ messages'[Len(messages')].isSystem
                /\ UNCHANGED <<connectedUsers, currentView, roomToken, isCreator>>]_vars

\* C8's case: after the snapshot of a new room, "Bo is connected" is the one
\* entry of the feed and ConnectedUsers is still the snapshot's.
C8_Witness ==
    /\ currentView = "chat"
    /\ connectedUsers = <<"Al">>
    /\ Len(messages) = 1
    /\ messages[1].text = "Bo is connected"

\* C9: the welcome form moves the view to Menu only when the name is
\* non-empty after trimming, the view never returns to Welcome, and in Menu
\* and Chat the name is non-empty after trimming.
C9_NameGate ==
    /\ [](currentView \in {"menu", "chat"} => Truthy(Trim(userName)))
    /\ [][/\ handleNameSubmit => (currentView' = "menu" <=> Truthy(Trim(userName)))
          /\ handleNameSubmit => (currentView' # "menu" => currentView' = "welcome")
          /\ currentView # "welcome" => currentView' # "welcome"
          /\ currentView # "welcome" => userName' = userName]_vars

\* C9's case: the form was submitted with a name that trimming shortens.
C9_Witness ==
    /\ currentView = "menu"
    /\ Truthy(Trim(userName))
    /\ Trim(userName) # userName

\* C10: the view changes only along Welcome to Menu, Menu to Chat and Chat to
\* Menu, and every Menu to Chat step sets a confirmed room token and the role
\* of the path that obtained it.
C10_ViewEdges ==
    [][/\ currentView' # currentView =>
              <<currentView, currentView'>> \in
                  {<<"welcome", "menu">>, <<"menu", "chat">>, <<"chat", "menu">>}
       /\ (currentView = "menu" /\ currentView' = "chat") =>
              /\ Truthy(roomToken')
              /\ roomToken' \in confirmed'
              /\ obtainedVia' \in {"generate", "validate"}
              /\ isCreator' <=> obtainedVia' = "generate"]_vars

\* C10's case: Chat was entered by the join path, left, and entered again by
\* the create path.
C10_Witness ==
    /\ currentView = "chat"
    /\ sockets = 2
    /\ obtainedVia = "generate"
    /\ isCreator
    /\ ToUpperCase(Text(<<"a">>)) \in confirmed

C12_TokenSubmitFailures ==
    [][LET C12_SubmitFailureKeeps ==
               UNCHANGED <<currentView, showTokenModal, roomToken, isCreator,
                           tokenInput, socket, connected, sockets, lastJoin, joins>>
       IN
       /\ (handleTokenSubmit /\ ~Truthy(Trim(tokenInput))) =>
              /\ tokenError' = "Please enter a token"
              /\ inflight' = inflight /\ requests' = requests
              /\ C12_SubmitFailureKeeps /\ ~EffectsPending'
       /\ \A r \in Requests :
              /\ handleTokenSubmitResume(r, "invalid") =>
                     /\ tokenError' = "Invalid token. Please check and try again."
                     /\ C12_SubmitFailureKeeps /\ ~EffectsPending'
              /\ handleTokenSubmitResume(r, "error") =>
                     /\ tokenError' = "Error validating token. Please try again."
                     /\ C12_SubmitFailureKeeps /\ ~EffectsPending']_vars

\* C12's case: the gateway has answered valid: false to the one request made;
\* the modal is still open in Menu with the token that was typed.
C12_Witness ==
    /\ currentView = "menu"
    /\ showTokenModal
    /\ tokenError = "Invalid token. Please check and try again."
    /\ Truthy(Trim(tokenInput))
    /\ requests = 1
    /\ roomToken = Empty
    /\ sockets = 0

\* C13: the validate request carries the upper-case form of the input as it
\* is at the submit; on a valid answer the RoomToken stored is the token that
\* request carried, whatever the input holds by then, and a joinRoom emitted
\* carries the RoomToken stored.
C13_StoredTokenIsTokenSent ==
    [][/\ (handleTokenSubmit /\ Truthy(Trim(tokenInput))) =>
              \E r \in Requests :
                  /\ r.kind = "validate"
                  /\ r.token = ToUpperCase(tokenInput)
                  /\ inflight' = Issue(r)
       /\ \A r \in Requests :
              handleTokenSubmitResume(r, "valid") =>
                  /\ roomToken' = r.token
                  /\ ToUpperCase(roomToken') = roomToken'
       /\ (runEffects /\ lastJoin' # lastJoin) => lastJoin'.token = roomToken]_vars

\* C13's case: a validate request that carries A is awaiting its answer and
\* the input has been changed since.
C13_Witness ==
    /\ showTokenModal
    /\ inflight[ValidateRequest(Text(<<"A">>))] > 0
    /\ tokenInput # Text(<<"A">>)
    /\ Truthy(tokenInput)

\* C14: a response that arrives after the user has left the context that
\* issued it is ignored: a generate-token response outside Menu, and a
\* validate response outside Menu or with the modal closed, change none of
\* the view, RoomToken and the role and cause no joinRoom emission.
C14_StaleResponseIgnored ==
    [][/\ \A token \in generateToken :
              (startNewChatResume(token) /\ currentView # "menu") =>
                  /\ UNCHANGED <<currentView, roomToken, isCreator>>
                  /\ ~EffectsPending'
       /\ \A r \in Requests : \A outcome \in ValidateOutcomes :
              (/\ handleTokenSubmitResume(r, outcome)
               /\ (currentView # "menu" \/ ~showTokenModal)) =>
                  /\ UNCHANGED <<currentView, roomToken, isCreator>>
                  /\ ~EffectsPending']_vars

\* C15: the ids of the entries of the feed are pairwise distinct.  Stated for
\* the pairs the client alone answers for, two entries it made from its
\* clock for presence events: their ids differ.
C15_FeedIdsDistinct ==
    \A i, j \in DOMAIN messages :
        (/\ i # j
         /\ "isSystem" \in DOMAIN messages[i]
         /\ "isSystem" \in DOMAIN messages[j]) => messages[i].id # messages[j].id

\* C16: between snapshots the feed only grows at its end: every step that is
\* neither a roomJoined nor an exit from Chat leaves the feed as it is or
\* extends it by exactly one entry after the entries it had; a sendMessage
\* step leaves the feed as it is.
C16_FeedAppendOnly ==
    [][/\ (/\ ~(\E s \in connected : \E data \in Snapshots : roomJoined(s, data))
           /\ ~(currentView = "chat" /\ currentView' # "chat")) =>
              \/ messages' = messages
              \/ /\ Len(messages') = Len(messages) + 1
                 /\ SubSeq(messages', 1, Len(messages)) = messages
       /\ sendMessage => messages' = messages]_vars

\* C16's case: a message was sent on the channel in use and the feed holds
\* two entries, one received and one made for a presence event.
C16_Witness ==
    /\ currentView = "chat"
    /\ socket # 0
    /\ lastSend.socket = socket
    /\ Len(messages) = 2
    /\ "isSystem" \notin DOMAIN messages[1]
    /\ "isSystem" \in DOMAIN messages[2]

\* C17: when generateToken fails (transport or parse failure, or no token in
\* the response), startNewChat changes nothing: the view, RoomToken and the
\* role stay as they were, no channel is opened and no joinRoom emitted, at
\* once or by an effect, and nothing is written to TokenError.
C17_GenerateFailureIsSilent ==
    [][startNewChatResume(NoToken) =>
           /\ UNCHANGED <<currentView, roomToken, isCreator, tokenError,
                          showTokenModal, socket, connected, sockets, lastJoin, joins>>
           /\ ~EffectsPending']_vars

\* C17's case: the one request made has been answered and the session is in
\* Menu as before it: no token, no channel, no error, the modal closed.
C17_Witness ==
    /\ currentView = "menu"
    /\ requests = 1
    /\ \A r \in Requests : inflight[r] = 0
    /\ roomToken = Empty
    /\ tokenError = ""
    /\ ~showTokenModal
    /\ sockets = 0
    /\ confirmed = {}

\* C18: the Cancel step of the token modal closes the modal and empties the
\* token input and the token error, and changes nothing else: the view,
\* RoomToken, the role, the feed, ConnectedUsers and the channel are as they
\* were, and no effect is left to run.
C18_CancelFrame ==
    [][cancelTokenModal =>
           /\ ~showTokenModal' /\ tokenInput' = Empty /\ tokenError' = ""
           /\ UNCHANGED <<currentView, roomToken, isCreator, messages, connectedUsers,
                          socket, connected, sockets, lastJoin, joins>>
           /\ ~EffectsPending']_vars

\* C18's case: the modal was cancelled with a validate request awaiting its
\* answer; the client is in the Chat it entered by the create path, with two
\* entries in the feed.
C18_Witness ==
    /\ currentView = "chat"
    /\ sockets = 1
    /\ obtainedVia = "generate"
    /\ ~showTokenModal /\ tokenInput = Empty /\ tokenError = ""
    /\ inflight[ValidateRequest(Text(<<"A">>))] > 0
    /\ Truthy(roomToken)
    /\ Len(messages) = 2

C20_ModalOnlyInMenu ==
    showTokenModal => currentView = "menu"

====
